---- MODULE Spec2Model ----
(***************************************************************************)
(* Catan board generator (src/board_generator.py).                         *)
(*                                                                         *)
(* Python lists are modelled as functions over 0..len-1, so that list      *)
(* indices and board positions read as in the source.  None is modelled    *)
(* by -1, which is neither a number token nor a heap reference.  A board   *)
(* returned by _generate_candidate_board is a fresh list object: the heap  *)
(* is the sequence of the boards created so far and the variables board,   *)
(* best_board and result hold references (indices) into it.                *)
(*                                                                         *)
(* Scores are real numbers of the shape (a + sqrt(e)) / 120 with integers  *)
(* a and e >= 0; they are kept as the pair [a, e] and compared exactly.    *)
(* The rounding of Python's floats is not modelled.                        *)
(***************************************************************************)
EXTENDS Integers, Sequences, FiniteSets, TLC

VARIABLES expansion, pc, max_attempts, attempt, heap, board, best_board,
          best_score, result, error, call

vars == <<expansion, pc, max_attempts, attempt, heap, board, best_board,
          best_score, result, error, call>>

None == -1

\* ------------------------------------------------------------------ bounds
\* largest max_attempts argument passed to generate_board
MaxAttempts == 2
\* seeds of the two shuffles inside generate_board range over 0..MaxSeed
MaxSeed == 2
\* seeds of the two shuffles of a direct _generate_candidate_board call
MaxSampleSeed == 7
\* get_pip_count is called with None and with every integer in 0..MaxNumber
MaxNumber == 13
\* adjacency.get is called with every key in -MaxKeySlack..18+MaxKeySlack
MaxKeySlack == 2

\* ------------------------------------------------------------ list helpers
List(seq) == [i \in 0..(Len(seq) - 1) |-> seq[i + 1]]

len(x) == Cardinality(DOMAIN x)

RECURSIVE SumTo(_, _)
\* f[0] + ... + f[n-1]
SumTo(f, n) == IF n <= 0 THEN 0 ELSE f[n - 1] + SumTo(f, n - 1)

RECURSIVE CountIn(_, _, _)
\* number of indices i < n of the list x with x[i] = v
CountIn(x, v, n) ==
    IF n <= 0 THEN 0
    ELSE (IF x[n - 1] = v THEN 1 ELSE 0) + CountIn(x, v, n - 1)

\* ------------------------------------------------------------- adjacency
adjacency ==
    (0 :> <<1, 3, 4>>) @@
    (1 :> <<0, 2, 4, 5>>) @@
    (2 :> <<1, 5, 6>>) @@
    (3 :> <<0, 4, 7, 8>>) @@
    (4 :> <<0, 1, 3, 5, 8, 9>>) @@
    (5 :> <<1, 2, 4, 6, 9, 10>>) @@
    (6 :> <<2, 5, 10, 11>>) @@
    (7 :> <<3, 8, 12>>) @@
    (8 :> <<3, 4, 7, 9, 12, 13>>) @@
    (9 :> <<4, 5, 8, 10, 13, 14>>) @@
    (10 :> <<5, 6, 9, 11, 14, 15>>) @@
    (11 :> <<6, 10, 15>>) @@
    (12 :> <<7, 8, 13, 16>>) @@
    (13 :> <<8, 9, 12, 14, 16, 17>>) @@
    (14 :> <<9, 10, 13, 15, 17, 18>>) @@
    (15 :> <<10, 11, 14, 18>>) @@
    (16 :> <<12, 13, 17>>) @@
    (17 :> <<13, 14, 16, 18>>) @@
    (18 :> <<14, 15, 17>>)

\* faulty variant: 18 does not list 17 back
adjacency_get_one_way(pos) ==
    IF pos = 18 THEN <<14, 15>>
    ELSE IF pos \in DOMAIN adjacency THEN adjacency[pos] ELSE <<>>

\* self.adjacency.get(pos, [])
adjacency_get(pos) == IF pos \in DOMAIN adjacency THEN adjacency[pos] ELSE <<>>

\* the positions listed by adjacency.get(pos, []), as a set
neighbors(pos) == {adjacency_get(pos)[k] : k \in DOMAIN adjacency_get(pos)}

\* ---------------------------------------------------------- distributions
KnownExpansions == {"base", "5-6player", "custom"}

\* setup_distribution leaves self.terrains and self.numbers unset for any
\* other name; "hexagon" stands for such a name
Expansions == KnownExpansions \cup {"hexagon"}

terrains(e) ==
    IF e = "base" THEN List(<<
        "Forest", "Forest", "Forest", "Forest",
        "Pasture", "Pasture", "Pasture", "Pasture",
        "Field", "Field", "Field", "Field",
        "Hill", "Hill", "Hill",
        "Mountain", "Mountain", "Mountain",
        "Desert">>)
    ELSE IF e = "5-6player" THEN List(<<
        "Forest", "Forest", "Forest", "Forest", "Forest", "Forest",
        "Pasture", "Pasture", "Pasture", "Pasture", "Pasture", "Pasture",
        "Field", "Field", "Field", "Field", "Field", "Field",
        "Hill", "Hill", "Hill", "Hill", "Hill",
        "Mountain", "Mountain", "Mountain", "Mountain", "Mountain",
        "Desert", "Desert">>)
    ELSE List(<<
        "Forest", "Forest", "Forest",
        "Pasture", "Pasture", "Pasture",
        "Field", "Field", "Field",
        "Hill", "Hill", "Hill",
        "Mountain", "Mountain", "Mountain",
        "Gold", "Gold", "Gold",
        "Desert">>)

numbers(e) ==
    IF e = "5-6player" THEN List(<<
        2, 2, 3, 3, 3, 4, 4, 4, 5, 5, 5, 6, 6, 6,
        8, 8, 8, 9, 9, 9, 10, 10, 10, 11, 11, 11, 12, 12>>)
    ELSE List(<<2, 3, 3, 4, 4, 5, 5, 6, 6, 8, 8, 9, 9, 10, 10, 11, 11, 12>>)

\* ------------------------------------------------------------------ shuffle
\* random.shuffle is the Fisher-Yates shuffle: for i = len-1 down to 1 it
\* draws j in 0..i and swaps x[i], x[j].  The draws of one shuffle come from
\* a linear congruential generator started from a seed; the seed is the
\* nondeterministic input.
RngSeed(seed) == (seed * 180 + 22) % 251

RngNext(r) == (180 * r + 22) % 251

Swap(x, i, j) == [x EXCEPT ![i] = x[j], ![j] = x[i]]

RECURSIVE ShuffleFrom(_, _, _)
ShuffleFrom(x, i, r) ==
    IF i < 1 THEN x
    ELSE ShuffleFrom(Swap(x, i, RngNext(r) % (i + 1)), i - 1, RngNext(r))

shuffle(x, seed) == ShuffleFrom(x, len(x) - 1, RngSeed(seed))

\* ------------------------------------------------ _generate_candidate_board
\* value of number_index when the loop reaches index i
number_index(shuffled_terrains, i) == i - CountIn(shuffled_terrains, "Desert", i)

\* faulty variant: number_index advances on Desert hexes too (the last token is
\* reused where the index would run off the list)
hex_tile_no_skip(shuffled_terrains, shuffled_numbers, i) ==
    [position |-> i,
     terrain  |-> shuffled_terrains[i],
     number   |-> IF shuffled_terrains[i] = "Desert" THEN None
                  ELSE IF i < len(shuffled_numbers) THEN shuffled_numbers[i]
                  ELSE shuffled_numbers[len(shuffled_numbers) - 1]]

hex_tile(shuffled_terrains, shuffled_numbers, i) ==
    [position |-> i,
     terrain  |-> shuffled_terrains[i],
     number   |-> IF shuffled_terrains[i] = "Desert" THEN None
                  ELSE shuffled_numbers[number_index(shuffled_terrains, i)]]

\* the board built from the two shuffled lists
build_board(shuffled_terrains, shuffled_numbers) ==
    [i \in DOMAIN shuffled_terrains |->
        hex_tile(shuffled_terrains, shuffled_numbers, i)]

_generate_candidate_board(e, tseed, nseed) ==
    build_board(shuffle(terrains(e), tseed), shuffle(numbers(e), nseed))

\* --------------------------------------------- _check_adjacent_high_numbers
\* faulty variant: only the 8s count as high
high_value_positions_eights(b) ==
    {b[i].position : i \in {k \in DOMAIN b : b[k].number \in {8}}}

high_value_positions(b) ==
    {b[i].position : i \in {k \in DOMAIN b : b[k].number \in {6, 8}}}

_check_adjacent_high_numbers(b) ==
    ~ \E pos \in high_value_positions(b) :
        \E k \in DOMAIN adjacency_get(pos) :
            adjacency_get(pos)[k] \in high_value_positions(b)

\* ------------------------------------------------- _check_desert_placement
edge_positions == {0, 1, 2, 3, 6, 7, 11, 12, 16, 17, 18}

\* faulty variant: the Desert check accepts every board
_check_desert_placement_skipped(b) == TRUE

_check_desert_placement(b) ==
    ~ \E i \in DOMAIN b :
        b[i].terrain = "Desert" /\ b[i].position \in edge_positions

\* ------------------------------------------------------------ get_pip_count
pip_map ==
    (2 :> 1) @@ (3 :> 2) @@ (4 :> 3) @@ (5 :> 4) @@ (6 :> 5) @@
    (8 :> 5) @@ (9 :> 4) @@ (10 :> 3) @@ (11 :> 2) @@ (12 :> 1)

\* returns [raised |-> FALSE, value |-> pips]; get_pip_count has no raise
\* statement and dict.get with a default raises nothing
get_pip_count(number) ==
    IF number = None THEN [raised |-> FALSE, value |-> 0]
    ELSE IF number \in DOMAIN pip_map
         THEN [raised |-> FALSE, value |-> pip_map[number]]
         ELSE [raised |-> FALSE, value |-> 0]

\* -------------------------------------------------- _score_terrain_clustering
same_terrain_count(b, pos) ==
    Cardinality({k \in DOMAIN adjacency_get(pos) :
        /\ adjacency_get(pos)[k] < len(b)
        /\ b[adjacency_get(pos)[k]].terrain = b[pos].terrain})

\* contribution of the hex at index pos to cluster_penalty
cluster_term(b, pos) ==
    IF b[pos].terrain = "Desert" THEN 0
    ELSE IF same_terrain_count(b, pos) >= 2 THEN same_terrain_count(b, pos)
    ELSE 0

_score_terrain_clustering(b) ==
    SumTo([pos \in DOMAIN b |-> cluster_term(b, pos)], len(b))

\* ---------------------------------------------------- _score_resource_balance
\* the keys of resource_pips
resource_terrains(b) == {b[i].terrain : i \in DOMAIN b} \ {"Desert"}

\* resource_pips[terrain]
resource_pips(b, terrain) ==
    SumTo([i \in DOMAIN b |->
              IF b[i].terrain = terrain THEN get_pip_count(b[i].number).value
              ELSE 0], len(b))

RECURSIVE SumValues(_, _)
\* sum(f.values()) for a dict f with the keys S
SumValues(f, S) ==
    IF S = {} THEN 0
    ELSE LET t == CHOOSE x \in S : TRUE
         IN  f[t] + SumValues(f, S \ {t})

\* math.sqrt(variance) = sqrt(sq) / n with integers sq and n, where
\* variance = sum((v - avg)^2) / n = (n * sum(v^2) - sum(v)^2) / n^2
_score_resource_balance(b) ==
    LET keys == resource_terrains(b)
        n    == Cardinality(keys)
        v    == [t \in keys |-> resource_pips(b, t)]
        s1   == SumValues(v, keys)
        s2   == SumValues([t \in keys |-> v[t] * v[t]], keys)
    IN  IF keys = {} THEN [sq |-> 0, n |-> 1]
        ELSE [sq |-> n * s2 - s1 * s1, n |-> n]

\* ------------------------------------------------------- _score_pip_adjacency
\* faulty variant: the neighbour must have more than 4 pips
pip_adjacency_term_strict(b, pos) ==
    IF b[pos].number = None THEN 0
    ELSE IF get_pip_count(b[pos].number).value < 4 THEN 0
    ELSE Cardinality({k \in DOMAIN adjacency_get(pos) :
            /\ adjacency_get(pos)[k] < len(b)
            /\ b[adjacency_get(pos)[k]].number \notin {None, 0}
            /\ get_pip_count(b[adjacency_get(pos)[k]].number).value > 4})

\* what the hex at index pos adds to penalty
pip_adjacency_term(b, pos) ==
    IF b[pos].number = None THEN 0
    ELSE IF get_pip_count(b[pos].number).value < 4 THEN 0
    ELSE Cardinality({k \in DOMAIN adjacency_get(pos) :
            /\ adjacency_get(pos)[k] < len(b)
            /\ b[adjacency_get(pos)[k]].number \notin {None, 0}
            /\ get_pip_count(b[adjacency_get(pos)[k]].number).value >= 4})

\* penalty at the return statement, before the division
pip_adjacency_counter(b) ==
    SumTo([pos \in DOMAIN b |-> pip_adjacency_term(b, pos)], len(b))

\* penalty / 2, as the fraction num / den
_score_pip_adjacency(b) == [num |-> pip_adjacency_counter(b), den |-> 2]

\* --------------------------------------------------------------- _score_board
\* A score is the real number (a + sqrt(e)) / 120:
\*   cluster * 10          = 1200 * cluster / 120
\*   (sqrt(sq) / n) * 5    = sqrt((600 / n)^2 * sq) / 120   (n divides 600)
\*   (num / 2) * 3         = 180 * num / 120
_score_board(b) ==
    LET balance == _score_resource_balance(b)
    IN  [inf |-> FALSE,
         a |-> 1200 * _score_terrain_clustering(b)
               + 180 * _score_pip_adjacency(b).num,
         e |-> (600 \div balance.n) * (600 \div balance.n) * balance.sq]

\* float('inf')
Infinity == [inf |-> TRUE, a |-> 0, e |-> 0]

\* the integer k as a score
Real(k) == [inf |-> FALSE, a |-> 120 * k, e |-> 0]

\* x > 2 * m * sqrt(e) for integers x >= 0, m > 0, e >= 0, without a root:
\* with x = 2*m*q + r the test is (q + r/(2m))^2 > e
ExceedsRoot(x, m, e) ==
    LET q == x \div (2 * m)
        r == x % (2 * m)
    IN  IF q > 46340 THEN TRUE
        ELSE IF q * q > e THEN TRUE
        ELSE IF (q + 1) * (q + 1) <= e THEN FALSE
        ELSE LET l == m * (e - q * q) - q * r
             IN  IF l < 0 THEN TRUE
                 ELSE IF l = 0 THEN r > 0
                 ELSE IF l >= m THEN FALSE
                 ELSE r * r > 4 * m * l

\* x = 2 * m * sqrt(e)
EqualsRoot(x, m, e) ==
    /\ x % (2 * m) = 0
    /\ x \div (2 * m) <= 46340
    /\ (x \div (2 * m)) * (x \div (2 * m)) = e

\* a1 + sqrt(e1) < a2 + sqrt(e2)
RootLess(a1, e1, a2, e2) ==
    LET d == a2 - a1
    IN  IF e1 <= e2
        THEN IF d > 0 THEN TRUE
             ELSE IF d = 0 THEN e1 < e2
             ELSE IF -d > 46340 THEN FALSE
             ELSE \* sqrt(e2) - sqrt(e1) > -d
                  /\ e2 - e1 - d * d > 0
                  /\ ExceedsRoot(e2 - e1 - d * d, -d, e1)
        ELSE IF d <= 0 THEN FALSE
             ELSE IF d > 46340 THEN TRUE
             ELSE \* sqrt(e1) - sqrt(e2) < d
                  \/ e1 - e2 - d * d < 0
                  \/ ~ ( \/ ExceedsRoot(e1 - e2 - d * d, d, e2)
                         \/ EqualsRoot(e1 - e2 - d * d, d, e2) )

\* s1 < s2 on scores
ScoreLess(s1, s2) ==
    IF s1.inf THEN FALSE
    ELSE IF s2.inf THEN TRUE
    ELSE RootLess(s1.a, s1.e, s2.a, s2.e)

\* ------------------------------------------------------------ generate_board
\* faulty variant: score <= best_score
is_new_best_or_equal(score, best) == ~ ScoreLess(best, score)

\* score < best_score
is_new_best(score, best) == ScoreLess(score, best)

\* faulty variant: score < 5
is_good_enough_5(score) == ScoreLess(score, Real(5))

\* score < 50
is_good_enough(score) == ScoreLess(score, Real(50))

\* truth value of a list reference: None and the empty list are false
truthy(ref) == ref # None /\ len(heap[ref]) > 0

NoCall == [fn |-> "none", arg |-> None, ret |-> None]

\* the state after CatanBoardGenerator(expansion)
Init ==
    /\ expansion \in Expansions
    /\ pc = "constructed"
    /\ max_attempts = None
    /\ attempt = 0
    /\ heap = <<>>
    /\ board = None
    /\ best_board = None
    /\ best_score = Infinity
    /\ result = None
    /\ error = "none"
    /\ call = NoCall

\* generate_board(max_attempts): the two assignments before the loop
generate_board(m) ==
    /\ pc = "constructed"
    /\ max_attempts' = m
    /\ best_board' = None
    /\ best_score' = Infinity
    /\ attempt' = 0
    /\ pc' = "for"
    /\ UNCHANGED <<expansion, heap, board, result, error, call>>

\* one more value of range(max_attempts): the body samples a candidate
for_sample(tseed, nseed) ==
    /\ pc = "for"
    /\ attempt < max_attempts
    /\ expansion \in KnownExpansions
    /\ heap' = Append(heap, _generate_candidate_board(expansion, tseed, nseed))
    /\ board' = Len(heap) + 1
    /\ attempt' = attempt + 1
    /\ pc' = "check_adjacent"
    /\ UNCHANGED <<expansion, max_attempts, best_board, best_score, result, error, call>>

\* range(max_attempts) is exhausted
for_exhausted ==
    /\ pc = "for"
    /\ attempt >= max_attempts
    /\ pc' = "return"
    /\ UNCHANGED <<expansion, max_attempts, attempt, heap, board, best_board,
                   best_score, result, error, call>>

\* if not self._check_adjacent_high_numbers(board): continue
check_adjacent ==
    /\ pc = "check_adjacent"
    /\ pc' = IF _check_adjacent_high_numbers(heap[board]) THEN "check_desert" ELSE "for"
    /\ UNCHANGED <<expansion, max_attempts, attempt, heap, board, best_board,
                   best_score, result, error, call>>

\* if not self._check_desert_placement(board): continue
check_desert ==
    /\ pc = "check_desert"
    /\ pc' = IF _check_desert_placement(heap[board]) THEN "score" ELSE "for"
    /\ UNCHANGED <<expansion, max_attempts, attempt, heap, board, best_board,
                   best_score, result, error, call>>

\* score the board, record a new best, break when it is good enough
score_board ==
    /\ pc = "score"
    /\ LET score == _score_board(heap[board])
       IN  IF is_new_best(score, best_score)
           THEN /\ best_score' = score
                /\ best_board' = board
                /\ pc' = IF is_good_enough(score) THEN "return" ELSE "for"
           ELSE /\ pc' = "for"
                /\ UNCHANGED <<best_score, best_board>>
    /\ UNCHANGED <<expansion, max_attempts, attempt, heap, board, result, error, call>>

\* return best_board if best_board
return_best ==
    /\ pc = "return"
    /\ truthy(best_board)
    /\ result' = best_board
    /\ pc' = "done"
    /\ UNCHANGED <<expansion, max_attempts, attempt, heap, board, best_board,
                   best_score, error, call>>

\* ... else self._generate_candidate_board()
return_fallback(tseed, nseed) ==
    /\ pc = "return"
    /\ ~ truthy(best_board)
    /\ expansion \in KnownExpansions
    /\ heap' = Append(heap, _generate_candidate_board(expansion, tseed, nseed))
    /\ result' = Len(heap) + 1
    /\ pc' = "done"
    /\ UNCHANGED <<expansion, max_attempts, attempt, board, best_board,
                   best_score, error, call>>

\* _generate_candidate_board on a generator whose setup_distribution set
\* no self.terrains: self.terrains.copy() raises AttributeError, which
\* generate_board does not catch
sample_raises ==
    /\ expansion \notin KnownExpansions
    /\ \/ pc = "for" /\ attempt < max_attempts
       \/ pc = "return" /\ ~ truthy(best_board)
    /\ error' = "AttributeError"
    /\ pc' = "raised"
    /\ UNCHANGED <<expansion, max_attempts, attempt, heap, board, best_board,
                   best_score, result, call>>

Next ==
    \/ \E m \in 0..MaxAttempts : generate_board(m)
    \/ \E tseed \in 0..MaxSeed, nseed \in 0..MaxSeed : for_sample(tseed, nseed)
    \/ for_exhausted
    \/ check_adjacent
    \/ check_desert
    \/ score_board
    \/ return_best
    \/ \E tseed \in 0..MaxSeed, nseed \in 0..MaxSeed : return_fallback(tseed, nseed)
    \/ sample_raises

Spec == Init /\ [][Next]_vars

\* ------------------------------------------------- direct calls of the parts
\* The methods called one at a time on a constructed generator of a known
\* expansion; call records the last call, its argument and what it returned.
InitCalls ==
    /\ expansion \in KnownExpansions
    /\ pc = "constructed"
    /\ max_attempts = None
    /\ attempt = 0
    /\ heap = <<>>
    /\ board = None
    /\ best_board = None
    /\ best_score = Infinity
    /\ result = None
    /\ error = "none"
    /\ call = NoCall

\* board = generator._generate_candidate_board(), once per behaviour
call_generate_candidate_board(tseed, nseed) ==
    /\ board = None
    /\ heap' = <<_generate_candidate_board(expansion, tseed, nseed)>>
    /\ board' = 1
    /\ call' = [fn |-> "_generate_candidate_board", arg |-> None, ret |-> 1]
    /\ UNCHANGED <<expansion, pc, max_attempts, attempt, best_board, best_score,
                   result, error>>

\* generator._check_adjacent_high_numbers(board)
call_check_adjacent_high_numbers ==
    /\ board # None
    /\ call' = [fn |-> "_check_adjacent_high_numbers", arg |-> board,
                ret |-> _check_adjacent_high_numbers(heap[board])]
    /\ UNCHANGED <<expansion, pc, max_attempts, attempt, heap, board, best_board,
                   best_score, result, error>>

\* generator._check_desert_placement(board)
call_check_desert_placement ==
    /\ board # None
    /\ call' = [fn |-> "_check_desert_placement", arg |-> board,
                ret |-> _check_desert_placement(heap[board])]
    /\ UNCHANGED <<expansion, pc, max_attempts, attempt, heap, board, best_board,
                   best_score, result, error>>

\* generator._score_pip_adjacency(board)
call_score_pip_adjacency ==
    /\ board # None
    /\ call' = [fn |-> "_score_pip_adjacency", arg |-> board,
                ret |-> _score_pip_adjacency(heap[board])]
    /\ UNCHANGED <<expansion, pc, max_attempts, attempt, heap, board, best_board,
                   best_score, result, error>>

\* generator.get_pip_count(number)
call_get_pip_count(number) ==
    /\ call' = [fn |-> "get_pip_count", arg |-> number, ret |-> get_pip_count(number)]
    /\ UNCHANGED <<expansion, pc, max_attempts, attempt, heap, board, best_board,
                   best_score, result, error>>

\* generator.adjacency.get(pos, [])
call_adjacency_get(pos) ==
    /\ call' = [fn |-> "adjacency.get", arg |-> pos, ret |-> adjacency_get(pos)]
    /\ UNCHANGED <<expansion, pc, max_attempts, attempt, heap, board, best_board,
                   best_score, result, error>>

NextCalls ==
    \/ \E tseed \in 0..MaxSampleSeed, nseed \in 0..MaxSampleSeed :
          call_generate_candidate_board(tseed, nseed)
    \/ call_check_adjacent_high_numbers
    \/ call_check_desert_placement
    \/ call_score_pip_adjacency
    \/ \E number \in {None} \cup 0..MaxNumber : call_get_pip_count(number)
    \/ \E pos \in (0 - MaxKeySlack)..(18 + MaxKeySlack) : call_adjacency_get(pos)

SpecCalls == InitCalls /\ [][NextCalls]_vars

\* ------------------------------------------------------------------- claims
\* The two hard constraints in the words of the specification.
SpecEdgeSet == {0, 1, 2, 3, 6, 7, 11, 12, 16, 17, 18}

HighPair(b) ==
    \E a \in DOMAIN b :
        /\ b[a].number \in {6, 8}
        /\ \E c \in neighbors(a) : c \in DOMAIN b /\ b[c].number \in {6, 8}

DesertOnEdge(b) ==
    \E i \in DOMAIN b : b[i].terrain = "Desert" /\ i \in SpecEdgeSet

HardConstraintsHold(b) == ~ HighPair(b) /\ ~ DesertOnEdge(b)

\* number of indices of the list x that hold v
Occurrences(x, v) == Cardinality({i \in DOMAIN x : x[i] = v})

TerrainNames == {"Forest", "Pasture", "Field", "Hill", "Mountain", "Gold", "Desert"}

\* C1: every board returned by _generate_candidate_board has one hex per
\* position 0..N-1 with hex i at index i, exactly the profile's terrains and
\* number tokens, and no number exactly on its Desert hexes; a base board has
\* 18 numbered hexes and one Desert.
C1_SampleKeepsProfile ==
    board # None =>
        LET b == heap[board]
            t == terrains(expansion)
            n == numbers(expansion)
        IN  /\ DOMAIN b = 0..(len(t) - 1)
            /\ \A i \in DOMAIN b : b[i].position = i
            /\ \A i \in DOMAIN b : b[i].terrain \in TerrainNames
            /\ \A x \in TerrainNames :
                  Cardinality({i \in DOMAIN b : b[i].terrain = x}) = Occurrences(t, x)
            /\ \A i \in DOMAIN b : b[i].number = None <=> b[i].terrain = "Desert"
            /\ \A i \in DOMAIN b : b[i].number # None => b[i].number \in 2..12
            /\ \A v \in 2..12 :
                  Cardinality({i \in DOMAIN b : b[i].number = v}) = Occurrences(n, v)
            /\ expansion = "base" =>
                  /\ Cardinality({i \in DOMAIN b : b[i].number # None}) = 18
                  /\ Cardinality({i \in DOMAIN b : b[i].terrain = "Desert"}) = 1

\* a 5-6 player board whose first Desert is followed by numbered hexes
C1_Witness ==
    /\ board # None
    /\ expansion = "5-6player"
    /\ call.fn = "_generate_candidate_board"
    /\ \E i \in 0..20 :
          /\ heap[board][i].terrain = "Desert"
          /\ heap[board][i + 1].number # None

\* C7: _check_adjacent_high_numbers returns true exactly when no position
\* holding a 6 or 8 has a neighbour holding a 6 or 8.
C7_AdjacentCheckExact ==
    call.fn = "_check_adjacent_high_numbers" =>
        (call.ret <=> ~ HighPair(heap[call.arg]))

\* a 30-hex board rejected for an adjacent pair of high numbers
C7_Witness ==
    /\ call.fn = "_check_adjacent_high_numbers"
    /\ expansion = "5-6player"
    /\ call.ret = FALSE
    /\ HighPair(heap[call.arg])

\* C8: the adjacency table is symmetric, free of self loops, lists only
\* positions of 0..18, and a key outside 0..18 has no neighbours.
C8_AdjacencySymmetric ==
    call.fn = "adjacency.get" =>
        LET a == call.arg
            listed == {call.ret[k] : k \in DOMAIN call.ret}
        IN  /\ a \notin 0..18 => call.ret = <<>>
            /\ a \notin listed
            /\ listed \subseteq 0..18
            /\ \A c \in listed : a \in neighbors(c)
            /\ \A c \in (0 - MaxKeySlack)..(18 + MaxKeySlack) :
                  a \in neighbors(c) => c \in listed

\* the neighbours of position 15, each of which lists 15 in turn
C8_Witness ==
    /\ call.fn = "adjacency.get"
    /\ call.arg = 15
    /\ call.ret = <<10, 11, 14, 18>>

HighPip(b, i) == b[i].number \in {5, 6, 8, 9}

HighPipPairs(b) ==
    {pr \in (DOMAIN b) \X (DOMAIN b) :
        /\ pr[1] < pr[2]
        /\ pr[2] \in neighbors(pr[1])
        /\ HighPip(b, pr[1])
        /\ HighPip(b, pr[2])}

\* C10: the counter of _score_pip_adjacency is even before it is halved and
\* the penalty returned is the number of unordered pairs of adjacent
\* positions that both hold a token of pip weight >= 4 (5, 6, 8 or 9); a
\* Desert hex adds nothing.
C10_PipAdjacencyCountsPairs ==
    call.fn = "_score_pip_adjacency" =>
        LET b == heap[call.arg]
        IN  /\ call.ret.den = 2
            /\ call.ret.num >= 0
            /\ call.ret.num % 2 = 0
            /\ call.ret.num \div 2 = Cardinality(HighPipPairs(b))
            /\ \A i \in DOMAIN b :
                  b[i].terrain = "Desert" => pip_adjacency_term(b, i) = 0

\* a board with at least two such pairs and a Desert inside the adjacency table
C10_Witness ==
    /\ call.fn = "_score_pip_adjacency"
    /\ call.ret.num >= 4
    /\ \E i \in 0..18 : heap[call.arg][i].terrain = "Desert"

\* the boards sampled inside the loop are heap[1..attempt]; a fallback
\* board, when there is one, is heap[attempt + 1]
LoopRefs == 1..attempt

ValidRefs == {i \in LoopRefs : HardConstraintsHold(heap[i])}

GoodRefs ==
    {i \in ValidRefs : ScoreLess(_score_board(heap[i]), Real(50))}

\* C2: generate_board returns a board that satisfies both hard constraints
\* whenever a candidate sampled in the loop satisfied both; otherwise the loop
\* ran max_attempts times, nothing was recorded or scored, and the result is
\* sample number max_attempts + 1.
C2_ValidIfAnyValid ==
    (pc = "done" /\ expansion \in KnownExpansions) =>
        IF ValidRefs # {}
        THEN /\ result \in LoopRefs
             /\ HardConstraintsHold(heap[result])
        ELSE /\ attempt = max_attempts
             /\ Len(heap) = max_attempts + 1
             /\ result = max_attempts + 1
             /\ best_board = None
             /\ best_score = Infinity

\* the first candidate passed, the second did not, the first is returned
C2_Witness ==
    /\ pc = "done"
    /\ attempt = 2
    /\ HardConstraintsHold(heap[1])
    /\ ~ HardConstraintsHold(heap[2])
    /\ result = 1

\* the other branch: no candidate passed and the board returned is a third,
\* failing one
C2_FallbackReached ==
    /\ pc = "done"
    /\ max_attempts = 2
    /\ ValidRefs = {}
    /\ result = 3
    /\ ~ HardConstraintsHold(heap[3])

\* C3: a board returned from the loop has the least score among the loop's
\* candidates that passed both hard constraints and is the first of them
\* with that score.
C3_FirstMinimum ==
    (pc = "done" /\ result \in LoopRefs) =>
        /\ result \in ValidRefs
        /\ \A i \in ValidRefs :
              /\ ~ ScoreLess(_score_board(heap[i]), _score_board(heap[result]))
              /\ i < result =>
                    ScoreLess(_score_board(heap[result]), _score_board(heap[i]))

\* two passing candidates with the same score: the first one is returned
C3_Witness ==
    /\ pc = "done"
    /\ attempt = 2
    /\ ValidRefs = {1, 2}
    /\ ~ ScoreLess(_score_board(heap[1]), _score_board(heap[2]))
    /\ ~ ScoreLess(_score_board(heap[2]), _score_board(heap[1]))
    /\ result = 1

\* a later passing candidate with a lower score replaces the first
C3_ReplacedReached ==
    /\ pc = "done"
    /\ attempt = 2
    /\ ValidRefs = {1, 2}
    /\ result = 2

\* what is left of a call: it drops with every step, so a call ends
Remaining ==
    IF pc = "constructed" THEN 6 * MaxAttempts + 30
    ELSE IF pc = "for" THEN 6 * (max_attempts - attempt) + 10
    ELSE IF pc = "check_adjacent" THEN 6 * (max_attempts - attempt) + 15
    ELSE IF pc = "check_desert" THEN 6 * (max_attempts - attempt) + 14
    ELSE IF pc = "score" THEN 6 * (max_attempts - attempt) + 13
    ELSE IF pc = "return" THEN 1
    ELSE 0

EarlyExitState ==
    /\ \A i \in GoodRefs :
          /\ i = attempt
          /\ Len(heap) = attempt
          /\ pc # "for"
          /\ pc = "done" => result = i
    /\ (pc \in {"return", "done"} /\ GoodRefs = {}) => attempt = max_attempts
    /\ pc # "constructed" =>
          /\ attempt <= max_attempts
          /\ Len(heap) <= max_attempts + 1

\* C4: a passing candidate with score < 50 is the last board sampled and the
\* one returned; without one the loop samples max_attempts candidates before
\* it returns; no call samples more than max_attempts + 1 boards, and every
\* step of a call brings it closer to its end.
C4_EarlyExit == [] EarlyExitState /\ [][Remaining' < Remaining]_vars

\* the first of two allowed attempts is good enough and is returned at once
C4_Witness ==
    /\ pc = "done"
    /\ max_attempts = 2
    /\ attempt = 1
    /\ GoodRefs = {1}
    /\ Len(heap) = 1
    /\ result = 1

\* C5: for an unknown profile name generation fails with InvalidConfiguration
\* at the entry of generate_board, before anything is sampled, and no board
\* is returned.
C5_UnknownProfileRejected ==
    expansion \notin KnownExpansions =>
        /\ result = None
        /\ heap = <<>>
        /\ \/ pc = "constructed"
           \/ pc = "raised" /\ error = "InvalidConfiguration"

\* C6: the edge set is the boundary ring: a 19-hex board passes
\* _check_desert_placement exactly when its Desert is on a position with six
\* neighbours.
C6_EdgeSetIsBoundary ==
    (call.fn = "_check_desert_placement" /\ len(heap[call.arg]) = 19) =>
        (call.ret <=>
            \A i \in DOMAIN heap[call.arg] :
                heap[call.arg][i].terrain = "Desert" => Len(adjacency_get(i)) = 6)

\* C9: get_pip_count returns 1..5 for 2..6, the same weight for n and 14 - n,
\* 0 for None, and fails for every other input.
C9_PipCountFailsFast ==
    call.fn = "get_pip_count" =>
        /\ call.arg \in {2, 3, 4, 5, 6} =>
              ~ call.ret.raised /\ call.ret.value = call.arg - 1
        /\ call.arg \in {8, 9, 10, 11, 12} =>
              ~ call.ret.raised /\ call.ret.value = 13 - call.arg
        /\ call.arg = None => ~ call.ret.raised /\ call.ret.value = 0
        /\ call.arg \notin {None, 2, 3, 4, 5, 6, 8, 9, 10, 11, 12} => call.ret.raised

====
